---------------------------- MODULE Spec2Model ----------------------------
(***************************************************************************)
(* A model of the interview engine (src/interview_engine): the dialogue    *)
(* state machine of InterviewEngine, the script and summary parsing of     *)
(* InterviewGenerator and the JSON repair of emergency_fix.                *)
(*                                                                         *)
(* The text generator (LLM) is an unreliable oracle: every call to it is a *)
(* nondeterministic choice among "raise" and the classes of text it can    *)
(* return.  Candidate texts are named by identifiers whose attributes      *)
(* (word count, trailing '?', phrases, similarity) are tabulated below.    *)
(***************************************************************************)
EXTENDS Integers, Sequences, FiniteSets, TLC

VARIABLES engine, result, obs, calls, gen

vars == <<engine, result, obs, calls, gen>>

(***************************************************************************)
(* Bounds of the model.                                                    *)
(***************************************************************************)
\* process_response calls explored on one session
MaxCalls == 3
\* questions the generator's script lists per category
MaxPerCategory == 1

None == "None"

(***************************************************************************)
(* Candidate texts.                                                        *)
(***************************************************************************)
\* words: len(text.split()); qmark: text.strip().lower().endswith('?');
\* qphrase: one of question_phrases occurs in it; moveon: one of
\* move_on_phrases occurs in it; markers: how many technical_markers occur
\* in it; star: situation, action and result markers all occur in it.
Text(words, qmark, qphrase, moveon, markers, star) ==
  [words |-> words, qmark |-> qmark, qphrase |-> qphrase, moveon |-> moveon,
   markers |-> markers, star |-> star]

TextAttr ==
  [ a1 |-> Text(5,   FALSE, FALSE, FALSE, 0, FALSE),
    a2 |-> Text(8,   FALSE, FALSE, FALSE, 1, TRUE),
    lg |-> Text(120, FALSE, FALSE, FALSE, 3, TRUE),
    q1 |-> Text(6,   TRUE,  FALSE, FALSE, 0, FALSE),
    lp |-> Text(120, FALSE, FALSE, FALSE, 1, FALSE),
    md |-> Text(50,  FALSE, FALSE, FALSE, 3, TRUE),
    mo |-> Text(5,   FALSE, FALSE, TRUE,  0, FALSE),
    mq |-> Text(6,   TRUE,  FALSE, TRUE,  0, FALSE) ]

\* the texts submitted to a session
Texts == {"a1", "a2", "lg", "q1"}

\* a similarity measure that finds no two texts alike
NeverSimilar(t1, t2) == 0

\* SequenceMatcher(None, lower(strip(t1)), lower(strip(t2))).ratio(), in
\* percent.  a2 is a1 with half as much again added to it, so that the ratio
\* 2 * M / T of the two is 2 * 2 / (2 + 3): exactly the threshold.
Similarity(t1, t2) ==
  IF t1 = t2 THEN 100
  ELSE IF {t1, t2} = {"a1", "a2"} THEN 80
  ELSE 30

(***************************************************************************)
(* Interview scripts: InterviewGenerator.generate_interview_script.        *)
(***************************************************************************)
Categories == {"job_specific", "technical", "company_fit", "behavioral"}

TopFields == {"introduction", "questions", "closing"}

\* The value of a script's "questions": a dict from category names to the
\* number of questions listed, or a JSON list / string in which `names` are
\* the category names that occur (as elements / substrings), or another JSON
\* value (null, number, boolean).
QDict(count) == [kind |-> "dict", names |-> DOMAIN count, count |-> count]

QOther(kind, names) ==
  [kind |-> kind, names |-> names, count |-> [c \in {} |-> 0]]

\* What the generator does with the script prompt: it raises (form "raise")
\* or returns a text whose JSON (after _fix_json_string) is an object with
\* `fields` ("object"), another JSON value ("nonobject") or no JSON at all
\* ("prose").
ScriptText(form, fields, questions) ==
  [form |-> form, fields |-> fields, questions |-> questions]

FallbackCount(demo_mode) ==
  [c \in Categories |-> IF c = "job_specific" /\ ~demo_mode THEN 2 ELSE 1]

_generate_fallback_script(demo_mode) ==
  [introduction |-> "canned", closing |-> "canned", source |-> "fallback",
   questions |-> QDict(FallbackCount(demo_mode))]

\* _parse_script_response: [ok |-> FALSE] stands for an exception leaving it
\* (its own except clause raises AttributeError: the generator has no
\* job_data attribute), which generate_interview_script turns into the
\* fallback script.
check_question_categories(qs) ==
  IF qs.kind = "dict"
  THEN [ok |-> TRUE,
        questions |-> QDict([c \in Categories |->
                         IF c \in qs.names THEN qs.count[c] ELSE 1])]
  ELSE IF qs.kind \in {"list", "string"} /\ Categories \subseteq qs.names
       THEN [ok |-> TRUE, questions |-> qs]
       ELSE [ok |-> FALSE, questions |-> qs]

_parse_script_response(text) ==
  IF text.form # "object" THEN [ok |-> FALSE]
  ELSE LET qs == IF "questions" \in text.fields THEN text.questions
                 ELSE QDict([c \in {} |-> 0])
           p == check_question_categories(qs)
       IN IF ~p.ok THEN [ok |-> FALSE]
          ELSE [ok |-> TRUE,
                script |->
                  [introduction |-> IF "introduction" \in text.fields
                                    THEN "generated" ELSE "canned",
                   closing |-> IF "closing" \in text.fields
                               THEN "generated" ELSE "canned",
                   source |-> "parsed",
                   questions |-> p.questions]]

InterviewGenerator_generate_interview_script(out, demo_mode) ==
  IF out.form = "raise" THEN _generate_fallback_script(demo_mode)
  ELSE LET p == _parse_script_response(out)
       IN IF p.ok THEN p.script ELSE _generate_fallback_script(demo_mode)

(***************************************************************************)
(* The question sequence: InterviewEngine._organize_questions.             *)
(***************************************************************************)
\* A question of the sequence: its category and its place (from 1) in the
\* script's list of that category; introduction and closing are built in.
Question(category, n) == [category |-> category, n |-> n]

NoQuestion == Question("none", 0)

FirstRoundOrder == <<"job_specific", "technical", "company_fit", "behavioral">>

\* later rounds that leave the job-specific list alone
LaterRoundSkipsJobSpecific == <<"behavioral", "technical", "company_fit">>

LaterRoundOrder == <<"job_specific", "behavioral", "technical", "company_fit">>

\* the questions one pass over `order` pops: the r-th of every category that
\* still has one
Round(count, order, r) ==
  LET RECURSIVE Pass(_)
      Pass(i) ==
        IF i > Len(order) THEN <<>>
        ELSE (IF count[order[i]] >= r THEN <<Question(order[i], r)>> ELSE <<>>)
             \o Pass(i + 1)
  IN Pass(1)

MaxCount(count) ==
  CHOOSE m \in {count[c] : c \in DOMAIN count} \cup {0} :
    \A c \in DOMAIN count : count[c] <= m

\* a sequence that repeats the introduction in place of the closing question
OrganizeWithoutClosing(script) ==
  <<Question("introduction", 0)>>
  \o Round(script.questions.count, FirstRoundOrder, 1)
  \o <<Question("introduction", 0)>>

_organize_questions(script) ==
  LET count == script.questions.count
      RECURSIVE Rounds(_)
      Rounds(r) ==
        IF r > MaxCount(count) THEN <<>>
        ELSE Round(count, LaterRoundOrder, r) \o Rounds(r + 1)
  IN <<Question("introduction", 0)>>
     \o Round(count, FirstRoundOrder, 1)
     \o Rounds(2)
     \o <<Question("closing", 0)>>

(***************************************************************************)
(* Summaries: emergency_fix.fix_json / extract_data_from_text and          *)
(* InterviewGenerator._parse_summary_response / _validate_summary.         *)
(***************************************************************************)
StringFields ==
  {"candidate_name", "position", "technical_evaluation", "cultural_fit",
   "recommendation", "next_steps", "overall_assessment"}

ListFields == {"strengths", "areas_for_improvement"}

RequiredKeys == StringFields \cup ListFields \cup {"response_scores", "skill_ratings"}

\* the shapes of a JSON value that the validation tells apart
ValueShapes == {"str", "emptystr", "list", "emptylist", "num", "null"}

Falsy(shape) == shape \in {"emptystr", "emptylist", "null"}

\* A text returned for the summary prompt.  form: "empty"; "prose" (no
\* braces); "scalar" / "array" (valid JSON that is no object); "flat_object"
\* (a valid object without inner objects); "nested_object" (a valid object
\* holding inner objects, which the lazy pattern cuts at the first '}');
\* "fixable_object" (a flat object with unquoted keys or trailing commas);
\* "truncated" (an object cut before its closing brace).  fields: the keys
\* written in it as "key": value, with the shape of each value.
SummaryText(form, fields) == [form |-> form, fields |-> fields]

SummaryForms ==
  {"empty", "prose", "scalar", "array", "flat_object", "nested_object",
   "fixable_object", "truncated"}

\* a parsed JSON value
Parsed(type, fields) == [type |-> type, fields |-> fields]

NoFields == [k \in {} |-> "null"]

\* a parsed value together with the stage of fix_json that produced it:
\* "direct" (the first json.loads), "fixed" (json.loads after the textual
\* fixes), "hjson", or "extract" (extract_data_from_text)
Staged(parsed, stage) ==
  [type |-> parsed.type, fields |-> parsed.fields, stage |-> stage]

\* what import hjson / hjson.loads does with the repaired string: the module
\* is missing or rejects it, or it yields a mapping, or another value
HjsonOutcomes == {"fail", "dict", "other"}

extract_data_from_text(text) ==
  Staged(Parsed("dict",
    [k \in RequiredKeys |->
       IF k \in StringFields
       THEN (IF k \in DOMAIN text.fields /\ text.fields[k] \in {"str", "num"}
             THEN "str" ELSE "emptystr")
       ELSE IF k \in ListFields
       THEN (IF k \in DOMAIN text.fields /\ text.fields[k] \in {"list", "str"}
             THEN "list" ELSE "emptylist")
       ELSE "list"]), "extract")

fix_json(text, hjson) ==
  CASE text.form = "flat_object" -> Staged(Parsed("dict", text.fields), "direct")
    [] text.form = "scalar" -> Staged(Parsed("scalar", NoFields), "direct")
    [] text.form = "array" -> Staged(Parsed("list", NoFields), "direct")
    [] text.form = "fixable_object" -> Staged(Parsed("dict", text.fields), "fixed")
    [] OTHER ->
         IF hjson = "dict" THEN Staged(Parsed("dict", text.fields), "hjson")
         ELSE IF hjson = "other" THEN Staged(Parsed("scalar", NoFields), "hjson")
         ELSE extract_data_from_text(text)

\* [ok |-> FALSE] stands for the TypeError that a value which is no mapping
\* raises at the first membership test or item assignment.
_validate_summary(summary) ==
  IF summary.type # "dict" THEN [ok |-> FALSE]
  ELSE LET f == summary.fields
           Has(k) == k \in DOMAIN f
           Fixed(k) ==
             IF k \in StringFields
             THEN (IF ~Has(k) \/ Falsy(f[k]) THEN "str" ELSE f[k])
             ELSE "list"
       IN [ok |-> TRUE,
           summary |->
             [source |-> "validated",
              stage |-> summary.stage,
              fields |-> [k \in DOMAIN f \cup RequiredKeys |->
                            IF k \in RequiredKeys THEN Fixed(k) ELSE f[k]]]]

_create_fallback_summary ==
  [source |-> "fallback",
   fields |-> [k \in RequiredKeys |-> IF k \in StringFields THEN "str" ELSE "list"]]

\* parsing that lets the error of a failed validation escape
Raised == [source |-> "raised", fields |-> NoFields]

ParseWithoutRescue(response, hjson) ==
  LET v == _validate_summary(fix_json(response, hjson))
  IN IF v.ok THEN v.summary ELSE Raised

_parse_summary_response(response, hjson) ==
  LET v == _validate_summary(fix_json(response, hjson))
      x == _validate_summary(extract_data_from_text(response))
  IN IF v.ok THEN v.summary
     ELSE IF x.ok THEN x.summary
     ELSE _create_fallback_summary

\* generate_interview_summary: reply is "raise" when the generator call
\* raises, else the text it returned
LLMRaise == SummaryText("raise", NoFields)

generate_interview_summary(reply, hjson) ==
  IF reply.form = "raise" THEN _create_fallback_summary
  ELSE _parse_summary_response(reply, hjson)

(***************************************************************************)
(* The engine: InterviewEngine.                                            *)
(***************************************************************************)
\* ConversationMemory.max_history
max_history == 10

NoScript ==
  [introduction |-> "none", closing |-> "none", source |-> "none",
   questions |-> QOther("none", {})]

\* the values self.summary and a result's "summary" take besides the
\* generator's records
NoSummary == [source |-> "none", fields |-> NoFields]

ErrorSummary == [source |-> "error", fields |-> [k \in {"error"} |-> "str"]]

OverallImpression(source) ==
  [source |-> source, fields |-> [k \in {"overall_impression"} |-> "str"]]

_generate_minimal_summary ==
  [source |-> "minimal",
   fields |-> [k \in StringFields \cup ListFields |->
                 IF k \in StringFields THEN "str" ELSE "list"]]

InitEngine ==
  [script |-> NoScript,
   questions |-> <<>>,
   current_question_index |-> 0,
   responses |-> <<>>,
   follow_ups |-> <<>>,
   interview_active |-> FALSE,
   interview_complete |-> FALSE,
   summary |-> NoSummary,
   demo_mode |-> FALSE,
   previous_responses |-> [i \in {} |-> <<>>],
   candidate_questions |-> <<>>,
   memory |-> <<>>,
   prompt_cache |-> [question_detection |-> [t \in {} |-> FALSE],
                     response_quality |-> [k \in {} |-> 0]]]

\* The value a call returns.  call names the operation; raised says that it
\* ended with an exception instead of a value.
Result(call, status) ==
  [call |-> call, raised |-> FALSE, status |-> status, message |-> "",
   introduction |-> "", acknowledgment |-> "", question |-> NoQuestion,
   is_follow_up |-> FALSE,
   closing_remarks |-> "", summary |-> NoSummary, question_number |-> 0,
   total_questions |-> 0]

Active(e, acknowledgment, question, is_follow_up) ==
  [Result("process_response", "active") EXCEPT
     !.acknowledgment = acknowledgment,
     !.question = question,
     !.is_follow_up = is_follow_up,
     !.question_number = e.current_question_index + 1,
     !.total_questions = Len(e.questions)]

Complete(message, closing_remarks, summary) ==
  [Result("process_response", "complete") EXCEPT
     !.message = message,
     !.closing_remarks = closing_remarks,
     !.summary = summary]

\* A turn threads the engine and the record of what it did: s.e is the
\* engine, s.log the events of the turn.  Operators that consult the
\* generator yield the set of their possible outcomes.
Log(s, event) == [s EXCEPT !.log = @ \cup {event}]

Out(s, v) == [s |-> s, v |-> v]

get_current_question(e) ==
  IF e.current_question_index < Len(e.questions)
  THEN e.questions[e.current_question_index + 1]
  ELSE NoQuestion

\* a cursor that stays on the question it is on
StayOnQuestion(s) == Out(s, get_current_question(s.e))

get_next_question(s) ==
  LET e1 == [s.e EXCEPT !.current_question_index = @ + 1]
  IN IF e1.current_question_index < Len(e1.questions)
     THEN Out([s EXCEPT !.e = e1], e1.questions[e1.current_question_index + 1])
     ELSE Out([s EXCEPT !.e = [e1 EXCEPT !.interview_complete = TRUE]], NoQuestion)

Exchange(question, asked, response, is_candidate_question) ==
  [question |-> question, asked |-> asked, response |-> response,
   is_candidate_question |-> is_candidate_question]

\* a memory that, once full, keeps what it holds and drops the new exchange
AddDroppingNewest(history, exchange) ==
  IF Len(history) >= max_history THEN history ELSE Append(history, exchange)

add_exchange(history, exchange) ==
  LET h == Append(history, exchange)
  IN IF Len(h) > max_history THEN Tail(h) ELSE h

\* replies of the generator to the yes/no detection prompt
DetectReplies == {"raise", "Yes", "no"}

\* detection that does not look for the trailing question mark
DetectWithoutQuestionMark(s, text) ==
  IF TextAttr[text].qphrase THEN {Out(s, TRUE)} ELSE {Out(s, FALSE)}

_detect_candidate_question(s, text) ==
  LET a == TextAttr[text]
      cache == s.e.prompt_cache.question_detection
  IN IF a.qmark THEN {Out(s, TRUE)}
     ELSE IF a.qphrase THEN {Out(s, TRUE)}
     ELSE IF a.words > 15
     THEN IF text \in DOMAIN cache THEN {Out(s, cache[text])}
          ELSE { IF r = "raise"
                 THEN Out(Log(s, "llm_raised"), FALSE)
                 ELSE Out([s EXCEPT
                             !.e.prompt_cache.question_detection =
                               [t \in DOMAIN cache \cup {text} |->
                                  IF t = text THEN r \in {"Yes", "yes"}
                                  ELSE cache[t]]],
                          r \in {"Yes", "yes"})
                 : r \in DetectReplies }
     ELSE {Out(s, FALSE)}

\* the similarity threshold of _check_duplicate_response, in percent
SimilarityThreshold == 80

\* a test that already takes a ratio at the threshold for a duplicate
AtLeastThreshold(similarity) == similarity >= SimilarityThreshold

\* "If very similar, consider it a duplicate"
TooSimilar(similarity) == similarity > SimilarityThreshold

_check_duplicate_response(s, new_response, question_index) ==
  LET prev0 == s.e.previous_responses
      prev == [i \in DOMAIN prev0 \cup {question_index} |->
                 IF i \in DOMAIN prev0 THEN prev0[i] ELSE <<>>]
      s1 == [s EXCEPT !.e.previous_responses = prev]
  IN { IF d.v THEN Out(d.s, FALSE)
       ELSE IF \E j \in 1..Len(prev[question_index]) :
                 TooSimilar(Similarity(new_response, prev[question_index][j]))
       THEN Out(d.s, TRUE)
       ELSE Out([d.s EXCEPT !.e.previous_responses[question_index] =
                              Append(@, new_response)], FALSE)
       : d \in _detect_candidate_question(s1, new_response) }

\* texts the generator returns for the summary prompt of a session
SummaryReplies ==
  {LLMRaise,
   SummaryText("flat_object", [k \in {"candidate_name", "verdict"} |-> "str"])}

generate_summary(s, early_termination) ==
  IF s.e.responses = <<>> /\ ~early_termination
  THEN {Out([s EXCEPT !.e.summary = ErrorSummary], ErrorSummary)}
  ELSE IF \E i \in 1..Len(s.e.responses) : s.e.responses[i].question = NoQuestion
  THEN \* None.get raises while the prompt is built
       {Out(s, _generate_minimal_summary)}
  ELSE { LET summary == generate_interview_summary(r, h)
         IN Out([s EXCEPT !.e.summary = summary], summary)
         : r \in SummaryReplies, h \in HjsonOutcomes }

\* replies of the generator to the quality prompt, and int(reply.strip());
\* -1 stands for ValueError
QualityReplies == {"raise", "good", "2", "9"}

IntOf ==
  ("0" :> 0) @@ ("2" :> 2) @@ ("3" :> 3) @@ ("4" :> 4) @@ ("5" :> 5) @@
  ("6" :> 6) @@ ("7" :> 7) @@ ("9" :> 9) @@ ("15" :> 15)

ParseInt(reply) == IF reply \in DOMAIN IntOf THEN IntOf[reply] ELSE -1

Max(a, b) == IF a >= b THEN a ELSE b

Min(a, b) == IF a <= b THEN a ELSE b

QualityScore(reply) ==
  IF ParseInt(reply) = -1 THEN 5 ELSE Max(1, Min(10, ParseInt(reply)))

\* a decision that asks a follow-up whatever the score
AlwaysFollowUp(quality_score, follow_up_count) == TRUE

\* a decision that asks again whenever the score is below 7
ScoreDecisionLenient(quality_score, follow_up_count) == quality_score <= 6

\* the decision of _should_ask_follow_up for a score
ScoreDecision(quality_score, follow_up_count) ==
  IF quality_score <= 3 THEN TRUE
  ELSE IF quality_score <= 6 /\ follow_up_count = 0 THEN TRUE
  ELSE FALSE

\* its except branch: the set of values the heuristics can return
Heuristics(text, question, follow_up_count) ==
  LET a == TextAttr[text]
  IN IF a.words < 25 THEN {TRUE}
     ELSE IF question.category = "technical" /\ follow_up_count = 0
             /\ (a.words < 75 \/ a.markers < 2) THEN {TRUE}
     ELSE IF question.category = "behavioral" /\ follow_up_count = 0
             /\ ~a.star THEN {TRUE}
     ELSE IF a.words > 100 THEN {FALSE}
     ELSE IF follow_up_count = 0 THEN {TRUE, FALSE}
     ELSE {FALSE}

\* "Limit total follow-ups per question", and the same decision with the
\* limit left out
NoFollowUpLimit(follow_up_count) == FALSE

FollowUpLimitReached(follow_up_count) == follow_up_count >= 2

Rated(s, quality_score) ==
  IF quality_score >= 7 THEN Log(s, "rated_high") ELSE s

\* a text in which no move-on phrase is recognised
NeverMoveOn(text) == FALSE

\* the response contains one of the move_on_phrases
MoveOn(text) == TextAttr[text].moveon

\* _should_ask_follow_up when the generator answers the quality prompt with
\* one of `replies`
ShouldAskFollowUp(s, text, question, follow_up_count, replies) ==
  LET a == TextAttr[text]
      cache == s.e.prompt_cache.response_quality
      key == <<text, question>>
  IN IF MoveOn(text) THEN {Out(s, FALSE)}
     ELSE IF s.e.demo_mode
     THEN (IF follow_up_count > 0 THEN {Out(s, FALSE)}
           ELSE IF a.words < 15 THEN {Out(s, TRUE)}
           ELSE {Out(s, FALSE)})
     ELSE IF FollowUpLimitReached(follow_up_count) THEN {Out(s, FALSE)}
     ELSE IF key \in DOMAIN cache
     THEN {Out(Rated(Log(s, "quality"), cache[key]),
               ScoreDecision(cache[key], follow_up_count))}
     ELSE UNION {
            IF r = "raise"
            THEN { Out(Log(Log(Log(s, "quality"), "quality_llm"), "llm_raised"), v)
                   : v \in Heuristics(text, question, follow_up_count) }
            ELSE { Out([Rated(Log(Log(s, "quality"), "quality_llm"),
                              QualityScore(r)) EXCEPT
                          !.e.prompt_cache.response_quality =
                            [k \in DOMAIN cache \cup {key} |->
                               IF k = key THEN QualityScore(r) ELSE cache[k]]],
                       ScoreDecision(QualityScore(r), follow_up_count)) }
            : r \in replies }

\* the policy of the regular mode applied in every mode
AskAsRegular(s, text, question, follow_up_count) ==
  { Out([o.s EXCEPT !.e.demo_mode = s.e.demo_mode], o.v)
    : o \in ShouldAskFollowUp([s EXCEPT !.e.demo_mode = FALSE], text, question,
                              follow_up_count, QualityReplies) }

_should_ask_follow_up(s, text, question, follow_up_count) ==
  ShouldAskFollowUp(s, text, question, follow_up_count, QualityReplies)

\* the closing the completion results carry: script.get("closing", default)
ClosingOf(script) == IF script.closing = "none" THEN "default" ELSE script.closing

_handle_interview_completion(s) ==
  LET s1 == [s EXCEPT !.e.interview_complete = TRUE]
  IN { Out(g.s, Complete("", ClosingOf(g.s.e.script), g.s.e.summary))
       : g \in generate_summary(s1, FALSE) }

_handle_next_question(s, response_text, current_question) ==
  LET n == get_next_question(s)
  IN IF n.v # NoQuestion
     THEN {Out(n.s, Active(n.s.e, "buffer", n.v, FALSE))}
     ELSE _handle_interview_completion(n.s)

\* generate_follow_up_question: what the generator thread does, and the
\* value returned ("None" for None)
\* ("empty": a text that is empty once stripped, returned as "")
FollowUpReplies == {"raise", "NO_FOLLOW_UP_NEEDED", "empty", "question"}

\* the generator declines, or what it returns is of no use
Declines(reply) == reply \in {"raise", "NO_FOLLOW_UP_NEEDED", "empty"}

\* a generator whose every reply is taken for a follow-up question
FollowUpFromAnyReply(reply) == "generated"

generate_follow_up_question(reply) ==
  CASE reply = "raise" -> None
    [] reply = "NO_FOLLOW_UP_NEEDED" -> None
    [] reply = "empty" -> ""
    [] reply = "timeout" -> "Could you elaborate more on that point?"
    [] OTHER -> "generated"

FollowUp(question_index, original_question, follow_up_question, response) ==
  [question_index |-> question_index, original_question |-> original_question,
   follow_up_question |-> follow_up_question, response |-> response]

\* a follow-up handler that also moves the cursor on
FollowUpAdvancing(s, response_text, current_question) ==
  LET s2 == [s EXCEPT !.e.current_question_index = @ + 1,
                      !.e.follow_ups =
                        Append(@, FollowUp(s.e.current_question_index,
                                           current_question, "generated",
                                           response_text))]
  IN {Out(s2, Active(s2.e, "acknowledgment", current_question, TRUE))}

\* a question of a result that is not marked as a follow-up
UnmarkedQuestion(follow_up, category) ==
  [question |-> follow_up, category |-> category, follow_up |-> FALSE]

\* the "question" of the result that carries a follow-up
FollowUpQuestion(follow_up, category) ==
  [question |-> follow_up, category |-> category, follow_up |-> TRUE]

_handle_follow_up_generation(s, response_text, current_question) ==
  UNION {
    LET follow_up == generate_follow_up_question(r)
        s0 == Log(s, "follow_up_llm")
        s1 == IF Declines(r) THEN Log(s0, "follow_up_declined") ELSE s0
        s2 == [Log(s1, "follow_up_issued") EXCEPT !.e.follow_ups =
                 Append(@, FollowUp(s.e.current_question_index, current_question,
                                    follow_up, response_text))]
        q == FollowUpQuestion(follow_up, current_question.category)
    IN IF follow_up \in {None, ""}
       THEN _handle_next_question(s1, response_text, current_question)
       ELSE {Out(s2, Active(s2.e, "acknowledgment", q, q.follow_up))}
    : r \in FollowUpReplies }

CandidateQuestion(question, current_question_index) ==
  [question |-> question, current_question_index |-> current_question_index]

\* replies of the generator to the prompt that answers the candidate
AnswerReplies == {"raise", "answer"}

_handle_candidate_question(s, question_text, current_question) ==
  LET s1 == [Log(s, "candidate_question") EXCEPT
               !.e.candidate_questions =
                 Append(@, CandidateQuestion(question_text,
                                             s.e.current_question_index)),
               !.e.memory =
                 add_exchange(@, Exchange(NoQuestion, question_text, "", TRUE))]
  IN { Out(s1, Active(s1.e, IF r = "raise" THEN "good_question" ELSE "answer",
                      current_question, FALSE))
       : r \in AnswerReplies }

_handle_duplicate_response(s, response_text, current_question) ==
  LET Advance(s0) ==
        LET n == get_next_question(Log(s0, "duplicate"))
        IN IF n.v # NoQuestion
           THEN {Out(n.s, Active(n.s.e, "thank_you", n.v, FALSE))}
           ELSE LET s1 == [n.s EXCEPT !.e.interview_active = FALSE,
                                      !.e.interview_complete = TRUE]
                IN { Out([g.s EXCEPT !.e.summary = g.v],
                         Complete("", g.s.e.script.closing, g.v))
                     : g \in generate_summary(s1, FALSE) }
  IN UNION {
       IF d.v THEN _handle_candidate_question(d.s, response_text, current_question)
       ELSE IF current_question.category = "closing"
       THEN UNION {
              IF c.v
              THEN _handle_candidate_question(c.s, response_text, current_question)
              ELSE Advance(c.s)
              : c \in _detect_candidate_question(d.s, response_text) }
       ELSE Advance(d.s)
       : d \in _detect_candidate_question(s, response_text) }

\* a fallback handler that hands out a question even past the last one
FallbackPastEnd(s) ==
  LET s1 == [s EXCEPT !.e.current_question_index = @ + 1]
  IN Out(s1, Active(s1.e, "lets_move", get_current_question(s1.e), FALSE))

_fallback_response_handler(s) ==
  LET s1 == [s EXCEPT !.e.current_question_index = @ + 1]
  IN IF s1.e.current_question_index < Len(s1.e.questions)
     THEN Out(s1, Active(s1.e, "lets_move",
                         s1.e.questions[s1.e.current_question_index + 1], FALSE))
     ELSE Out([s1 EXCEPT !.e.interview_complete = TRUE],
              Complete("", "concludes", OverallImpression("fallback_handler")))

FollowUpCount(e) ==
  Cardinality({i \in 1..Len(e.follow_ups) :
                 e.follow_ups[i].question_index = e.current_question_index})

\* the if / elif / else at the end of _process_response_core
Decide(s, response_text, current_question) ==
  LET follow_up_count == FollowUpCount(s.e)
      last == s.e.current_question_index >= Len(s.e.questions) - 1
      Second(s1) ==
        UNION { IF b.v
                THEN _handle_follow_up_generation(b.s, response_text, current_question)
                ELSE _handle_next_question(b.s, response_text, current_question)
                : b \in _should_ask_follow_up(s1, response_text, current_question,
                                              follow_up_count) }
  IN IF last
     THEN UNION { IF ~a.v THEN _handle_interview_completion(a.s) ELSE Second(a.s)
                  : a \in _should_ask_follow_up(s, response_text, current_question,
                                                follow_up_count) }
     ELSE Second(s)

_process_response_core(s, response_text, current_question) ==
  UNION {
    IF d.v THEN _handle_duplicate_response(d.s, response_text, current_question)
    ELSE UNION {
           IF c.v THEN _handle_candidate_question(c.s, response_text, current_question)
           ELSE Decide(c.s, response_text, current_question)
           : c \in _detect_candidate_question(d.s, response_text) }
    : d \in _check_duplicate_response(s, response_text, s.e.current_question_index) }

Response(question_index, question, response) ==
  [question_index |-> question_index, question |-> question, response |-> response]

AlreadyComplete == "The interview is already complete."

\* The except clauses of process_response and _process_response_core, and the
\* question hard-coded in the last of them, are entered only when a handler
\* lets an exception out.  For a str response every statement that can raise
\* (the generator calls, the access to a question that is None) is already
\* inside a handler's own try, so those clauses are never entered and have no
\* counterpart here; the one path that leaves the try of process_response,
\* the question that is None, is _fallback_response_handler.
process_response(e, response_text) ==
  LET current_question == get_current_question(e)
      s0 == [e |-> [e EXCEPT !.responses =
                      Append(@, Response(e.current_question_index,
                                         current_question, response_text))],
             log |-> {}]
      s1 == [s0 EXCEPT !.e.memory =
               add_exchange(@, Exchange(current_question, "", response_text, FALSE))]
  IN IF current_question = NoQuestion THEN {_fallback_response_handler(s0)}
     ELSE IF e.interview_complete
     THEN {Out(s1, Complete(AlreadyComplete, "", s1.e.summary))}
     ELSE _process_response_core(s1, response_text, current_question)

(***************************************************************************)
(* Operations on a session.                                                *)
(***************************************************************************)
\* texts the generator returns for the script prompt of a session: an object
\* whose categories are all empty, one with a single technical question, and
\* one whose "questions" is a list of the category names
EngineScriptReplies ==
  {ScriptText("object", TopFields, QDict([c \in Categories |-> 0])),
   ScriptText("object", TopFields,
              QDict([c \in Categories |-> IF c = "technical" THEN MaxPerCategory ELSE 0])),
   ScriptText("object", TopFields, QOther("list", Categories))}

\* InterviewEngine.generate_interview_script; _organize_questions pops every
\* question off the script's lists, and raises AttributeError when
\* "questions" is no mapping
generate_interview_script(e, out, demo_mode) ==
  LET script == InterviewGenerator_generate_interview_script(out, demo_mode)
      e1 == [e EXCEPT !.demo_mode = demo_mode, !.script = script]
  IN IF script.questions.kind = "dict"
     THEN [e |-> [e1 EXCEPT
                    !.script.questions = QDict([c \in Categories |-> 0]),
                    !.questions = _organize_questions(script)],
           raised |-> FALSE]
     ELSE [e |-> e1, raised |-> TRUE]

\* a start that keeps the cursor and the records of the session
StartWithoutReset(e, out) ==
  LET e1 == [e EXCEPT !.interview_active = TRUE]
  IN [e |-> e1,
      result |-> [Result("start_interview", "active") EXCEPT
                    !.introduction = e1.script.introduction,
                    !.question = get_current_question(e1),
                    !.question_number = 1,
                    !.total_questions = Len(e1.questions)]]

start_interview(e, out) ==
  LET g == IF e.script = NoScript THEN generate_interview_script(e, out, FALSE)
           ELSE [e |-> e, raised |-> FALSE]
      e1 == [g.e EXCEPT !.interview_active = TRUE,
                        !.current_question_index = 0,
                        !.responses = <<>>,
                        !.follow_ups = <<>>]
  IN IF g.raised
     THEN [e |-> g.e, result |-> [Result("start_interview", "none") EXCEPT !.raised = TRUE]]
     ELSE IF get_current_question(e1) = NoQuestion
     THEN [e |-> e1, result |-> [Result("start_interview", "none") EXCEPT !.raised = TRUE]]
     ELSE [e |-> e1,
           result |-> [Result("start_interview", "active") EXCEPT
                         !.introduction = e1.script.introduction,
                         !.question = get_current_question(e1),
                         !.question_number = 1,
                         !.total_questions = Len(e1.questions)]]

\* what is remembered of the turns since start_interview: the events of the
\* last turn, and how many turns in a row were rated high with no candidate
\* question and no duplicate (-1 once one was not, or before any start)
Clean(log) ==
  "rated_high" \in log /\ "candidate_question" \notin log /\ "duplicate" \notin log

NoGen == [kind |-> "none"]

Init ==
  /\ engine = InitEngine
  /\ result = Result("init", "none")
  /\ obs = [log |-> {}, clean_turns |-> -1]
  /\ calls = 0
  /\ gen = NoGen

\* The session is driven as InterviewApp drives it: a script is generated
\* once, a response is handed on only while interview_active holds
\* (InterviewApp.process_response), and each run makes at most MaxCalls
\* response calls; a summary request uses up what is left of them.
GenerateScript ==
  /\ engine.script = NoScript
  /\ \E out \in EngineScriptReplies, demo_mode \in BOOLEAN :
       LET g == generate_interview_script(engine, out, demo_mode)
       IN /\ engine' = g.e
          /\ result' = [Result("generate_interview_script", "none") EXCEPT
                          !.raised = g.raised]
  /\ UNCHANGED <<obs, calls, gen>>

StartInterview ==
  /\ ~engine.interview_active
  /\ \E out \in EngineScriptReplies :
       LET r == start_interview(engine, out)
       IN /\ engine' = r.e
          /\ result' = r.result
  /\ obs' = [log |-> {}, clean_turns |-> 0]
  /\ UNCHANGED <<calls, gen>>

ProcessResponse ==
  /\ engine.interview_active
  /\ calls < MaxCalls
  /\ \E response_text \in Texts :
       \E o \in process_response(engine, response_text) :
         /\ engine' = o.s.e
         /\ result' = o.v
         /\ obs' = [log |-> o.s.log,
                    clean_turns |-> IF obs.clean_turns >= 0 /\ Clean(o.s.log)
                                    THEN obs.clean_turns + 1 ELSE -1]
  /\ calls' = calls + 1
  /\ UNCHANGED gen

GenerateSummary ==
  /\ calls < MaxCalls
  /\ \E early_termination \in BOOLEAN :
       \E g \in generate_summary([e |-> engine, log |-> {}], early_termination) :
         /\ engine' = g.s.e
         /\ result' = [Result("generate_summary", "none") EXCEPT !.summary = g.v]
  /\ calls' = MaxCalls
  /\ UNCHANGED <<obs, gen>>

Next == GenerateScript \/ StartInterview \/ ProcessResponse \/ GenerateSummary

Spec == Init /\ [][Next]_vars

(***************************************************************************)
(* Properties.                                                             *)
(***************************************************************************)
\* a step that is one process_response call
Turn == result'.call = "process_response" /\ calls' = calls + 1

\* the text submitted in the last turn
LastText(e) == e.responses[Len(e.responses)].response

AnswersCandidate(r) == r.acknowledgment \in {"answer", "good_question"}

(***************************************************************************)
(* The parsers on their own: every text of a bounded family is parsed      *)
(* once.                                                                   *)
(***************************************************************************)
\* keys a summary text is written with: one of each kind of required field
\* and one that is not required
SampleKeys == {"candidate_name", "strengths", "response_scores", "skill_ratings", "verdict"}

\* how many keys a summary text holds at most
MaxFields == 2

FieldMaps ==
  UNION { [ks -> ValueShapes] : ks \in {x \in SUBSET SampleKeys : Cardinality(x) <= MaxFields} }

\* the fields of a text that conforms to the summary schema; its
\* response_scores and skill_ratings are lists of objects
ConformingFields ==
  [k \in RequiredKeys |-> IF k \in StringFields THEN "str" ELSE "list"]

SummaryTexts ==
  {SummaryText(form, fields) : form \in SummaryForms, fields \in FieldMaps}
  \cup {SummaryText("nested_object", ConformingFields)}

Idle ==
  /\ engine = InitEngine
  /\ result = Result("init", "none")
  /\ obs = [log |-> {}, clean_turns |-> -1]
  /\ calls = 0

InitSummary ==
  /\ Idle
  /\ gen \in {[kind |-> "summary", response |-> t, hjson |-> h, done |-> FALSE,
               out |-> NoSummary] : t \in SummaryTexts, h \in HjsonOutcomes}

ParseSummary ==
  /\ gen.kind = "summary"
  /\ ~gen.done
  /\ gen' = [gen EXCEPT !.done = TRUE,
                        !.out = _parse_summary_response(gen.response, gen.hjson)]
  /\ UNCHANGED <<engine, result, obs, calls>>

SpecSummary == InitSummary /\ [][ParseSummary]_vars

\* the values of a script's "questions"
QuestionValues ==
  UNION { {QDict(count) : count \in [names -> 0..MaxPerCategory]}
          : names \in SUBSET Categories }
  \cup {QOther(kind, names) : kind \in {"list", "string"}, names \in SUBSET Categories}
  \cup {QOther("null", {})}

ScriptTexts ==
  {ScriptText(form, {}, QOther("null", {})) : form \in {"raise", "prose", "nonobject"}}
  \cup {ScriptText("object", fields, questions)
         : fields \in SUBSET TopFields, questions \in QuestionValues}

InitScript ==
  /\ Idle
  /\ gen \in {[kind |-> "script", text |-> t, demo_mode |-> d, done |-> FALSE,
               out |-> NoScript] : t \in ScriptTexts, d \in BOOLEAN}

ParseScript ==
  /\ gen.kind = "script"
  /\ ~gen.done
  /\ gen' = [gen EXCEPT !.done = TRUE,
                        !.out = InterviewGenerator_generate_interview_script(
                                  gen.text, gen.demo_mode)]
  /\ UNCHANGED <<engine, result, obs, calls>>

SpecScript == InitScript /\ [][ParseScript]_vars

(***************************************************************************)
(* The question sequence on its own: the engine is handed every script     *)
(* text of the bounded family once.                                        *)
(***************************************************************************)
InitOrganize ==
  /\ Idle
  /\ gen \in {[kind |-> "organize", text |-> t, demo_mode |-> d]
               : t \in ScriptTexts, d \in BOOLEAN}

OrganizeScript ==
  /\ gen.kind = "organize"
  /\ engine.script = NoScript
  /\ LET g == generate_interview_script(engine, gen.text, gen.demo_mode)
     IN /\ engine' = g.e
        /\ result' = [Result("generate_interview_script", "none") EXCEPT
                        !.raised = g.raised]
  /\ UNCHANGED <<obs, calls, gen>>

SpecOrganize == InitOrganize /\ [][OrganizeScript]_vars

(***************************************************************************)
(* The conversation memory on its own: exchanges are added to the memory   *)
(* of a new engine until it has overflowed.                                *)
(***************************************************************************)
\* add_exchange calls made on one memory
MaxAdds == 12

\* an answer to the first question, and a question of the candidate
MemoryExchanges ==
  {Exchange(Question("introduction", 0), "", "a1", FALSE),
   Exchange(NoQuestion, "q1", "", TRUE)}

InitMemory ==
  /\ Idle
  /\ gen = [kind |-> "memory", exchange |-> Exchange(NoQuestion, "", "", FALSE)]

AddExchange ==
  /\ gen.kind = "memory"
  /\ calls < MaxAdds
  /\ \E exchange \in MemoryExchanges :
       /\ engine' = [engine EXCEPT !.memory = add_exchange(@, exchange)]
       /\ gen' = [gen EXCEPT !.exchange = exchange]
  /\ calls' = calls + 1
  /\ UNCHANGED <<result, obs>>

SpecMemory == InitMemory /\ [][AddExchange]_vars

(***************************************************************************)
(* A session whose candidate asks to move on: the responses are a short    *)
(* answer, the same length of text with a move-on phrase, and a question   *)
(* of the candidate with a move-on phrase.  gen records the text of the    *)
(* turn.                                                                   *)
(***************************************************************************)
MoveOnTexts == {"a1", "mo", "mq"}

SubmitResponse ==
  /\ engine.interview_active
  /\ calls < MaxCalls
  /\ \E response_text \in MoveOnTexts :
       \E o \in process_response(engine, response_text) :
         /\ engine' = o.s.e
         /\ result' = o.v
         /\ obs' = [log |-> o.s.log,
                    clean_turns |-> IF obs.clean_turns >= 0 /\ Clean(o.s.log)
                                    THEN obs.clean_turns + 1 ELSE -1]
         /\ gen' = [kind |-> "turn", text |-> response_text]
  /\ calls' = calls + 1

SpecMoveOn == Init /\ [][GenerateScript \/ StartInterview \/ SubmitResponse]_vars

(***************************************************************************)
(* generate_follow_up_question as caller and worker threads.  Each call    *)
(* makes a queue of its own and starts a daemon worker that puts the       *)
(* generator's reply (None when the generator raises) into that queue; the *)
(* caller blocks in result_queue.get(timeout=5).  now counts seconds.  A   *)
(* worker may put at any time or never.  Time does not pass the deadline   *)
(* of a blocked get, and a blocked get is woken by a put or by the         *)
(* deadline; nothing is assumed about the worker.                          *)
(***************************************************************************)
MaxTurns == 2

MaxClock == 11

GetTimeoutSeconds == 5

CallIds == 1..MaxTurns

\* every call puts into one and the same queue
SharedQueue(call) == 1

\* result_queue is a local of the call
QueueOf(call) == call

InitFollowUpCall ==
  /\ Idle
  /\ gen = [kind |-> "follow_up", now |-> 0, pc |-> "idle", call |-> 0,
            started |-> 0,
            workers |-> [c \in CallIds |-> [state |-> "none", reply |-> "none"]],
            queues |-> [c \in CallIds |-> <<>>],
            returns |-> <<>>]

\* thread.start(): the call makes its queue and starts the worker
StartWorker ==
  /\ gen.kind = "follow_up"
  /\ gen.pc = "idle"
  /\ gen.call < MaxTurns
  /\ gen.now + GetTimeoutSeconds <= MaxClock
  /\ \E r \in FollowUpReplies :
       gen' = [gen EXCEPT !.pc = "waiting", !.call = @ + 1, !.started = gen.now,
                          !.workers[gen.call + 1] = [state |-> "running", reply |-> r]]
  /\ UNCHANGED <<engine, result, obs, calls>>

\* generate_with_timeout: the generator has answered or raised
WorkerPut ==
  /\ gen.kind = "follow_up"
  /\ \E c \in CallIds :
       /\ gen.workers[c].state = "running"
       /\ gen' = [gen EXCEPT !.workers[c].state = "done",
                             !.queues[QueueOf(c)] =
                               Append(@, [reply |-> gen.workers[c].reply, from |-> c])]
  /\ UNCHANGED <<engine, result, obs, calls>>

Tick ==
  /\ gen.kind = "follow_up"
  /\ gen.now < MaxClock
  /\ ~(gen.pc = "waiting" /\ gen.now >= gen.started + GetTimeoutSeconds)
  /\ gen' = [gen EXCEPT !.now = @ + 1]
  /\ UNCHANGED <<engine, result, obs, calls>>

\* result_queue.get returns an item
GetResult ==
  /\ gen.kind = "follow_up"
  /\ gen.pc = "waiting"
  /\ gen.queues[QueueOf(gen.call)] # <<>>
  /\ LET item == Head(gen.queues[QueueOf(gen.call)])
     IN gen' = [gen EXCEPT !.pc = "idle",
                           !.queues[QueueOf(gen.call)] = Tail(@),
                           !.returns = Append(@, [value |-> generate_follow_up_question(item.reply),
                                                  from |-> item.from,
                                                  timed_out |-> FALSE,
                                                  elapsed |-> gen.now - gen.started])]
  /\ UNCHANGED <<engine, result, obs, calls>>

\* result_queue.get raises queue.Empty
GetTimeout ==
  /\ gen.kind = "follow_up"
  /\ gen.pc = "waiting"
  /\ gen.queues[QueueOf(gen.call)] = <<>>
  /\ gen.now >= gen.started + GetTimeoutSeconds
  /\ gen' = [gen EXCEPT !.pc = "idle",
                        !.returns = Append(@, [value |-> generate_follow_up_question("timeout"),
                                               from |-> 0,
                                               timed_out |-> TRUE,
                                               elapsed |-> gen.now - gen.started])]
  /\ UNCHANGED <<engine, result, obs, calls>>

NextFollowUpCall == StartWorker \/ WorkerPut \/ Tick \/ GetResult \/ GetTimeout

SpecFollowUpCall ==
  /\ InitFollowUpCall
  /\ [][NextFollowUpCall]_vars
  /\ WF_vars(Tick)
  /\ WF_vars(GetResult)
  /\ WF_vars(GetTimeout)

(***************************************************************************)
(* _generate_acknowledgment with time.  A response of fewer than 15 words  *)
(* is acknowledged from a fixed list.  For a longer one the engine calls   *)
(* the generator in its own thread, through _generate_acknowledgment_      *)
(* cached, and is blocked until the call returns or raises: the engine     *)
(* starts no worker and sets no timeout, so the clock is free to advance   *)
(* while it is blocked.  The lru_cache keeps the result per question and   *)
(* response; the turns here are on one question.                           *)
(***************************************************************************)
AckTexts == {"a1", "md", "lg"}

AckReplies == {"raise", "empty", "text"}

_get_fallback_acknowledgment == "category_acknowledgment"

\* the body of _generate_acknowledgment_cached for a reply of the generator
_generate_acknowledgment_cached(reply) ==
  CASE reply = "raise" -> _get_fallback_acknowledgment
    [] reply = "empty" -> ""
    [] OTHER -> "generated_acknowledgment"

Acknowledged(value, elapsed) == [value |-> value, elapsed |-> elapsed]

InitAcknowledgment ==
  /\ Idle
  /\ gen = [kind |-> "acknowledgment", now |-> 0, pc |-> "idle", turn |-> 0,
            started |-> 0, text |-> "none", cache |-> <<>>, acks |-> <<>>]

_generate_acknowledgment ==
  /\ gen.kind = "acknowledgment"
  /\ gen.pc = "idle"
  /\ gen.turn < MaxTurns
  /\ \E response_text \in AckTexts :
       gen' = IF TextAttr[response_text].words < 15
              THEN [gen EXCEPT !.turn = @ + 1, !.text = response_text,
                               !.acks = Append(@, Acknowledged("simple_acknowledgment", 0))]
              ELSE IF response_text \in DOMAIN gen.cache
              THEN [gen EXCEPT !.turn = @ + 1, !.text = response_text,
                               !.acks = Append(@, Acknowledged(gen.cache[response_text], 0))]
              ELSE [gen EXCEPT !.turn = @ + 1, !.text = response_text,
                               !.pc = "blocked", !.started = gen.now]
  /\ UNCHANGED <<engine, result, obs, calls>>

\* self.generator.llm.generate_text(prompt) returns or raises
GeneratorReturns ==
  /\ gen.kind = "acknowledgment"
  /\ gen.pc = "blocked"
  /\ \E r \in AckReplies :
       LET acknowledgment == _generate_acknowledgment_cached(r)
       IN gen' = [gen EXCEPT !.pc = "idle",
                             !.cache = (gen.text :> acknowledgment) @@ gen.cache,
                             !.acks = Append(@, Acknowledged(acknowledgment,
                                                             gen.now - gen.started))]
  /\ UNCHANGED <<engine, result, obs, calls>>

SecondPasses ==
  /\ gen.kind = "acknowledgment"
  /\ gen.now < MaxClock
  /\ gen' = [gen EXCEPT !.now = @ + 1]
  /\ UNCHANGED <<engine, result, obs, calls>>

SpecAcknowledgment ==
  InitAcknowledgment /\ [][_generate_acknowledgment \/ GeneratorReturns \/ SecondPasses]_vars

(***************************************************************************)
(* OllamaProvider.get_completion, one loop iteration per step.  The module *)
(* llm_provider cannot be imported without the ollama package (its         *)
(* ImportError handler uses the logger before it is defined), so a         *)
(* provider exists only with OLLAMA_PACKAGE_AVAILABLE and the branch of    *)
(* the HTTP requests is never run.  A call of ollama.chat returns content, *)
(* returns a response of another form, or raises; every exception is       *)
(* caught inside the loop.                                                 *)
(***************************************************************************)
max_retries == 2

ChatOutcomes == {"content", "bad_format", "raise"}

Prompt(json, script, summary, follow_up, words) ==
  [json |-> json, script |-> script, summary |-> summary,
   follow_up |-> follow_up, words |-> words]

Prompts ==
  { Prompt(TRUE,  TRUE,  FALSE, FALSE, 300),
    Prompt(TRUE,  FALSE, TRUE,  FALSE, 300),
    Prompt(TRUE,  FALSE, FALSE, FALSE, 60),
    Prompt(FALSE, FALSE, FALSE, TRUE,  120),
    Prompt(FALSE, FALSE, TRUE,  FALSE, 200),
    Prompt(FALSE, FALSE, FALSE, FALSE, 20),
    Prompt(FALSE, FALSE, FALSE, FALSE, 60),
    Prompt(FALSE, FALSE, FALSE, FALSE, 120) }

TokenBudgets == {10, 100, 1000, 4000}

_generate_deterministic_fallback(prompt) ==
  IF prompt.json
  THEN (IF prompt.script THEN "{script}"
        ELSE IF prompt.summary THEN "{summary}"
        ELSE "{fallback}")
  ELSE IF prompt.follow_up THEN "Could you elaborate more on that point? ..."
  ELSE IF prompt.summary THEN "Based on our conversation, ..."
  ELSE IF prompt.words < 50 THEN "I understand your query. ..."
  ELSE IF prompt.words < 100 THEN "Thank you for your detailed query. ..."
  ELSE "I appreciate your comprehensive question. ..."

IsJsonObject(text) == text \in {"{script}", "{summary}", "{fallback}"}

_generate_labeled_fallback(prompt) ==
  LET fallback_response == _generate_deterministic_fallback(prompt)
  IN [labeled |-> ~IsJsonObject(fallback_response), text |-> fallback_response]

Content == [labeled |-> FALSE, text |-> "content"]

\* a failed attempt that leaves retry_count as it is
SameRetry(retry_count) == retry_count

\* retry_count += 1
NextRetry(retry_count) == retry_count + 1

ReducedTokens(max_tokens) ==
  IF max_tokens \div 2 >= 250 THEN max_tokens \div 2 ELSE 250

InitCompletion ==
  /\ Idle
  /\ gen \in {[kind |-> "completion", pc |-> "called", prompt |-> p,
               max_tokens |-> t, is_healthy |-> h, own_model_is_fallback |-> f,
               retry_count |-> 0, attempts |-> 0, requests |-> 0,
               got_content |-> FALSE, value |-> [labeled |-> FALSE, text |-> "none"]]
               : p \in Prompts, t \in TokenBudgets, h \in BOOLEAN, f \in BOOLEAN}

Return(g, value, got_content) ==
  [g EXCEPT !.pc = "returned", !.value = value, !.got_content = got_content]

\* the health check at the start of get_completion
CheckHealth ==
  /\ gen.kind = "completion"
  /\ gen.pc = "called"
  /\ IF gen.is_healthy
     THEN gen' = [gen EXCEPT !.pc = "loop"]
     ELSE \E healthy \in BOOLEAN :
            gen' = IF healthy
                   THEN [gen EXCEPT !.is_healthy = TRUE, !.pc = "loop"]
                   ELSE Return(gen, _generate_labeled_fallback(gen.prompt), FALSE)
  /\ UNCHANGED <<engine, result, obs, calls>>

\* one iteration of the while loop
Attempt ==
  /\ gen.kind = "completion"
  /\ gen.pc = "loop"
  /\ gen.retry_count <= max_retries
  /\ \E outcome \in ChatOutcomes, fallback_outcome \in ChatOutcomes :
       LET try_fallback == gen.retry_count = max_retries /\ ~gen.own_model_is_fallback
           g == [gen EXCEPT !.attempts = @ + 1,
                            !.requests = IF outcome # "content" /\ try_fallback
                                         THEN @ + 2 ELSE @ + 1]
       IN gen' = IF outcome = "content" THEN Return(g, Content, TRUE)
                 ELSE IF try_fallback /\ fallback_outcome = "content"
                 THEN Return(g, Content, TRUE)
                 ELSE IF outcome = "bad_format"
                 THEN [g EXCEPT !.retry_count = NextRetry(@)]
                 ELSE [g EXCEPT !.max_tokens = ReducedTokens(@),
                                !.retry_count = NextRetry(@)]
  /\ UNCHANGED <<engine, result, obs, calls>>

\* the loop is left: all retries failed
Exhausted ==
  /\ gen.kind = "completion"
  /\ gen.pc = "loop"
  /\ gen.retry_count > max_retries
  /\ gen' = Return(gen, _generate_labeled_fallback(gen.prompt), FALSE)
  /\ UNCHANGED <<engine, result, obs, calls>>

NextCompletion == CheckHealth \/ Attempt \/ Exhausted

\* the thread that runs get_completion keeps running
SpecCompletion ==
  InitCompletion /\ [][NextCompletion]_vars /\ WF_vars(NextCompletion)

(***************************************************************************)
(* The ResourceMonitor and the engines it registers.  active_engines is    *)
(* the dict in insertion order; engines are the engine objects the         *)
(* application holds (web_app.interview_engines), each with the number of  *)
(* responses it has recorded.  A `with self.lock:` block is one step.  A   *)
(* turn on an engine is three steps, mark_engine_access, check_resources   *)
(* and the body of process_response, and the turns of different engines    *)
(* and the periodic check of resource_monitor_task (engine 0 below)        *)
(* interleave.  time.time() does not decrease; whether the memory is over  *)
(* the threshold is the environment's choice.  access holds the resources  *)
(* the last step touched and whether the lock was held.                    *)
(***************************************************************************)
MaxEngines == 2

MaxTime == 2

\* sorted(..., key=(last_access, -access_count)), the first max(1, n // 4)
\* entries deleted; sorted is stable, so equal keys stay in dict order
_cleanup_least_used_engines(active_engines) ==
  LET n == Len(active_engines)
      Key(i) == <<active_engines[i].last_access, 0 - active_engines[i].access_count>>
      Before(i, j) ==
        \/ Key(i)[1] < Key(j)[1]
        \/ Key(i)[1] = Key(j)[1] /\ Key(i)[2] < Key(j)[2]
        \/ Key(i) = Key(j) /\ i < j
      engines_to_remove == IF n \div 4 > 1 THEN n \div 4 ELSE 1
      Removed(x) ==
        \E i \in 1..n : /\ active_engines[i] = x
                        /\ Cardinality({j \in 1..n : Before(j, i)}) < engines_to_remove
  IN IF n = 0 THEN [kept |-> active_engines, removed |-> {}]
     ELSE [kept |-> SelectSeq(active_engines, LAMBDA x : ~Removed(x)),
           removed |-> {active_engines[i].id : i \in {k \in 1..n : Removed(active_engines[k])}}]

InitRegistry ==
  /\ Idle
  /\ gen = [kind |-> "registry", now |-> 0, active_engines |-> <<>>, engines |-> {},
            responses |-> [e \in 1..MaxEngines |-> 0], pc |-> [e \in 1..MaxEngines |-> "idle"],
            turns |-> 0, evicted |-> {}, access |-> {},
            served |-> [engine |-> 0, evicted |-> FALSE, responses |-> 0],
            cleanup |-> [by |-> 0, removed |-> {}, before |-> <<>>]]

\* InterviewEngine.__init__: the new engine registers itself
register_engine ==
  /\ gen.kind = "registry"
  /\ \E engine_id \in (1..MaxEngines) \ gen.engines, t \in {gen.now, gen.now + 1} :
       /\ t <= MaxTime
       /\ gen' = [gen EXCEPT !.now = t, !.engines = @ \cup {engine_id},
                             !.active_engines =
                               Append(@, [id |-> engine_id, last_access |-> t,
                                          access_count |-> 0]),
                             !.access = {[resource |-> "registry", locked |-> TRUE]}]
  /\ UNCHANGED <<engine, result, obs, calls>>

\* the first statement of process_response
mark_engine_access ==
  /\ gen.kind = "registry"
  /\ gen.turns < MaxTurns
  /\ \E engine_id \in gen.engines, t \in {gen.now, gen.now + 1} :
       /\ gen.pc[engine_id] = "idle"
       /\ t <= MaxTime
       /\ gen' = [gen EXCEPT !.now = t, !.turns = @ + 1, !.pc[engine_id] = "marked",
                             !.active_engines =
                               [i \in 1..Len(@) |->
                                  IF @[i].id = engine_id
                                  THEN [@[i] EXCEPT !.last_access = t,
                                                    !.access_count = @ + 1]
                                  ELSE @[i]],
                             !.access = {[resource |-> "registry", locked |-> TRUE]}]
  /\ UNCHANGED <<engine, result, obs, calls>>

\* check_resources, called by a turn after mark_engine_access or, as
\* engine 0, by resource_monitor_task
check_resources ==
  /\ gen.kind = "registry"
  /\ \E engine_id \in gen.engines \cup {0}, over_threshold \in BOOLEAN :
       LET cleaned == _cleanup_least_used_engines(gen.active_engines)
           g == IF engine_id = 0 THEN gen ELSE [gen EXCEPT !.pc[engine_id] = "checked"]
       IN /\ engine_id # 0 => gen.pc[engine_id] = "marked"
          /\ gen' = IF over_threshold
                    THEN [g EXCEPT !.active_engines = cleaned.kept,
                                   !.evicted = @ \cup cleaned.removed,
                                   !.cleanup = [by |-> engine_id,
                                                removed |-> cleaned.removed,
                                                before |-> gen.active_engines],
                                   !.access = {[resource |-> "registry", locked |-> TRUE]}]
                    ELSE [g EXCEPT !.access = {}]
  /\ UNCHANGED <<engine, result, obs, calls>>

\* the rest of process_response: the response is recorded in the engine, the
\* prompt cache is looked up and written, the generator is called
ServeTurn ==
  /\ gen.kind = "registry"
  /\ \E engine_id \in gen.engines :
       /\ gen.pc[engine_id] = "checked"
       /\ gen' = [gen EXCEPT !.pc[engine_id] = "idle",
                             !.responses[engine_id] = @ + 1,
                             !.served = [engine |-> engine_id,
                                         evicted |-> engine_id \in gen.evicted,
                                         responses |-> gen.responses[engine_id]],
                             !.access = {[resource |-> "prompt_cache", locked |-> FALSE],
                                         [resource |-> "generator", locked |-> FALSE]}]
  /\ UNCHANGED <<engine, result, obs, calls>>

SpecRegistry ==
  InitRegistry
  /\ [][register_engine \/ mark_engine_access \/ check_resources \/ ServeTurn]_vars

(***************************************************************************)
(* A whole session: the candidate answers until the interview is complete, *)
(* with a short and a long answer, and no response is classified as a      *)
(* candidate question.  calls counts the process_response calls made since *)
(* start_interview.                                                        *)
(***************************************************************************)
\* process_response calls made in one session
MaxSessionCalls == 10

AnswerUntilComplete ==
  /\ engine.interview_active
  /\ ~engine.interview_complete
  /\ calls < MaxSessionCalls
  /\ \E response_text \in {"a1", "lg"} :
       \E o \in process_response(engine, response_text) :
         /\ "candidate_question" \notin o.s.log
         /\ engine' = o.s.e
         /\ result' = o.v
  /\ calls' = calls + 1
  /\ UNCHANGED <<obs, gen>>

SpecSession == Init /\ [][GenerateScript \/ StartInterview \/ AnswerUntilComplete]_vars

(***************************************************************************)
(* The web sessions of web_app.py, for one session id: the time of its     *)
(* last access, whether interview_engines holds its engine, and the clock  *)
(* in seconds.  A request passes check_session_activity (before_request),  *)
(* then validate_session, then the view; session_cleanup_task runs once in *)
(* every period of 300 seconds.  gen records, for the last request,        *)
(* whether the last access recorded at its arrival was older than          *)
(* SESSION_TIMEOUT, the status answered and whether the engine served it.  *)
(***************************************************************************)
SESSION_TIMEOUT == 3600

\* threading.Timer(300, session_cleanup_task)
CleanupPeriod == 300

\* periods of the cleanup task that a run lasts
MaxPeriods == 14

\* the session id is not in session_last_access
NoAccess == -1

InitWeb ==
  /\ Idle
  /\ gen = [kind |-> "web", now |-> 0, session_last_access |-> 0,
            interview_engines |-> TRUE, cleaned |-> FALSE, stale |-> FALSE,
            status |-> "success", served |-> FALSE]

check_session_activity(w) == [w EXCEPT !.session_last_access = w.now]

validate_session(w) ==
  IF w.session_last_access = NoAccess
  THEN [w |-> w, status |-> "error", passed |-> FALSE]
  ELSE IF w.now - w.session_last_access > SESSION_TIMEOUT
  THEN [w |-> [w EXCEPT !.interview_engines = FALSE,
                        !.session_last_access = NoAccess],
        status |-> "session_expired", passed |-> FALSE]
  ELSE [w |-> [w EXCEPT !.session_last_access = w.now],
        status |-> "passed", passed |-> TRUE]

\* POST /api/process_response: interview_engines[session_id] raises KeyError
\* (answered with status "error") when the engine is gone
api_process_response ==
  /\ gen.kind = "web"
  /\ LET v == validate_session(check_session_activity(gen))
     IN gen' = [v.w EXCEPT
                  !.stale = /\ gen.session_last_access # NoAccess
                            /\ gen.now - gen.session_last_access > SESSION_TIMEOUT,
                  !.status = IF ~v.passed THEN v.status
                             ELSE IF v.w.interview_engines THEN "engine_result"
                             ELSE "error",
                  !.served = v.passed /\ v.w.interview_engines]
  /\ UNCHANGED <<engine, result, obs, calls>>

session_cleanup_task ==
  /\ gen.kind = "web"
  /\ ~gen.cleaned
  /\ LET expired == /\ gen.session_last_access # NoAccess
                    /\ gen.now - gen.session_last_access > SESSION_TIMEOUT
     IN gen' = IF expired /\ gen.interview_engines
               THEN [gen EXCEPT !.cleaned = TRUE, !.interview_engines = FALSE,
                                !.session_last_access = NoAccess]
               ELSE [gen EXCEPT !.cleaned = TRUE]
  /\ UNCHANGED <<engine, result, obs, calls>>

\* the clock reaches the next run of the cleanup task
NextPeriod ==
  /\ gen.kind = "web"
  /\ gen.cleaned
  /\ gen.now < MaxPeriods * CleanupPeriod
  /\ gen' = [gen EXCEPT !.now = @ + CleanupPeriod, !.cleaned = FALSE]
  /\ UNCHANGED <<engine, result, obs, calls>>

SpecWeb == InitWeb /\ [][api_process_response \/ session_cleanup_task \/ NextPeriod]_vars

(***************************************************************************)
(* The follow-up policy on its own: _should_ask_follow_up decides once for *)
(* every text, question category, number of follow-ups asked, mode and     *)
(* reply of the generator to the quality prompt.                           *)
(***************************************************************************)
PolicyReplies == QualityReplies \cup DOMAIN IntOf

QuestionCategories == Categories \cup {"introduction", "closing"}

\* follow-ups already on record for the question
FollowUpCounts == {0, 1, 2}

InitQuality ==
  /\ Idle
  /\ gen \in {[kind |-> "quality", text |-> t, category |-> c,
               follow_up_count |-> n, demo_mode |-> d, reply |-> r,
               done |-> FALSE, out |-> FALSE, log |-> {}]
               : t \in DOMAIN TextAttr, c \in QuestionCategories,
                 n \in FollowUpCounts, d \in BOOLEAN, r \in PolicyReplies}

EvaluateQuality ==
  /\ gen.kind = "quality"
  /\ ~gen.done
  /\ \E o \in ShouldAskFollowUp(
                [e |-> [InitEngine EXCEPT !.demo_mode = gen.demo_mode], log |-> {}],
                gen.text,
                Question(gen.category, IF gen.category \in Categories THEN 1 ELSE 0),
                gen.follow_up_count, {gen.reply}) :
       gen' = [gen EXCEPT !.done = TRUE, !.out = o.v, !.log = o.s.log]
  /\ UNCHANGED <<engine, result, obs, calls>>

SpecQuality == InitQuality /\ [][EvaluateQuality]_vars

(***************************************************************************)
(* A session that is initialised but never started, driven as the route    *)
(* /api/process_response of web_app drives it: the response goes to        *)
(* InterviewEngine.process_response whatever interview_active is.          *)
(***************************************************************************)
SubmitBeforeStart ==
  /\ ~engine.interview_active
  /\ calls < MaxCalls
  /\ \E response_text \in Texts :
       \E o \in process_response(engine, response_text) :
         /\ engine' = o.s.e
         /\ result' = o.v
         /\ obs' = [obs EXCEPT !.log = o.s.log]
  /\ calls' = calls + 1
  /\ UNCHANGED gen

SpecNotStarted == Init /\ [][GenerateScript \/ SubmitBeforeStart]_vars

\* C1: over the process_response calls of a session the cursor
\* current_question_index never decreases; it is unchanged by a call whose
\* result is a follow-up or an answer to a candidate question, and when it
\* grows the result is the question now under the cursor or the completion.
C1_CursorMonotone ==
  [][Turn =>
       /\ engine'.current_question_index >= engine.current_question_index
       /\ (result'.is_follow_up \/ AnswersCandidate(result'))
            => engine'.current_question_index = engine.current_question_index
       /\ engine'.current_question_index > engine.current_question_index
            => \/ result'.status = "complete"
               \/ /\ result'.status = "active"
                  /\ ~result'.is_follow_up
                  /\ result'.question = get_current_question(engine')]_vars

\* a follow-up is returned on the second question: the cursor grew in an
\* earlier call and stayed in this one
C1_Witness ==
  /\ result.call = "process_response"
  /\ result.is_follow_up
  /\ engine.current_question_index = 1

FollowUpsOf(e, i) ==
  Cardinality({j \in 1..Len(e.follow_ups) : e.follow_ups[j].question_index = i})

FollowUpCap(e) == IF e.demo_mode THEN 1 ELSE 2

\* C2: in every reachable state and for every question index the number of
\* FollowUp records with that index is at most the cap: 2 in regular mode
\* (1 in demo mode).
C2_FollowUpBound ==
  \A j \in 1..Len(engine.follow_ups) :
     FollowUpsOf(engine, engine.follow_ups[j].question_index) <= FollowUpCap(engine)

\* two follow-ups are on record for a question and a third, new answer to it
\* was moved on from without a quality evaluation
C2_Witness ==
  /\ result.call = "process_response"
  /\ ~engine.demo_mode
  /\ Len(engine.responses) >= 3
  /\ LET i == engine.responses[Len(engine.responses)].question_index
     IN /\ FollowUpsOf(engine, i) = 2
        /\ ~result.is_follow_up
        /\ obs.log = {}

\* the session is in progress: not complete, and the cursor is on a question
InProgress(e) == ~e.interview_complete /\ get_current_question(e) # NoQuestion

HasAllKeys(summary) == RequiredKeys \subseteq DOMAIN summary.fields

\* C3: once interview_complete holds, a process_response call returns the
\* "already complete" result and leaves current_question_index, responses
\* and the conversation memory as they were.
C3_CompleteIsFrozen ==
  [][(Turn /\ engine.interview_complete) =>
       /\ result'.message = AlreadyComplete
       /\ engine'.current_question_index = engine.current_question_index
       /\ engine'.responses = engine.responses
       /\ engine'.memory = engine.memory]_vars

\* C4: process_response never raises: also in a turn in which a call to the
\* generator raised, and in one that found no current question, it returns a
\* result of status active that carries a question, or of status complete.
C4_WellFormedResult ==
  result.call = "process_response" =>
    /\ ~result.raised
    /\ result.status \in {"active", "complete"}
    /\ result.status = "active" => result.question # NoQuestion

\* a generator call raised during the turn and the next scripted question
\* was handed out
C4_Witness ==
  /\ result.call = "process_response"
  /\ "llm_raised" \in obs.log
  /\ result.status = "active"
  /\ ~result.is_follow_up
  /\ result.question = get_current_question(engine)
  /\ engine.current_question_index > 0

\* C5: in a session in progress, a response whose text ends in '?' (also one
\* submitted before for the same question) gets status active with an
\* answer and the same current question; current_question_index is
\* unchanged, no FollowUp record is appended and the response is not treated
\* as a duplicate answer.
C5_CandidateQuestionFrame ==
  [][(Turn /\ InProgress(engine) /\ TextAttr[LastText(engine')].qmark) =>
       /\ result'.status = "active"
       /\ AnswersCandidate(result')
       /\ result'.question = get_current_question(engine)
       /\ ~result'.is_follow_up
       /\ engine'.current_question_index = engine.current_question_index
       /\ engine'.follow_ups = engine.follow_ups
       /\ "duplicate" \notin obs'.log]_vars

\* the same question text was submitted twice for the same question and
\* answered both times
C5_Witness ==
  /\ result.call = "process_response"
  /\ AnswersCandidate(result)
  /\ Len(engine.responses) >= 2
  /\ LET n == Len(engine.responses)
     IN /\ TextAttr[engine.responses[n].response].qmark
        /\ engine.responses[n - 1].response = engine.responses[n].response
        /\ engine.responses[n - 1].question_index = engine.responses[n].question_index

\* the text was already recorded as an answer to the question under the cursor
SubmittedBefore(e, text) ==
  \E i \in 1..Len(e.responses) :
     /\ e.responses[i].question_index = e.current_question_index
     /\ e.responses[i].response = text

\* C6: in a session in progress, when a text not taken for a candidate
\* question is submitted again for the question still under the cursor, the
\* call requests no quality evaluation and no follow-up, appends no FollowUp
\* record, moves the cursor by one and returns status active with the next
\* question, or completes the interview when none remains.
C6_DuplicateAdvances ==
  [][(/\ Turn
      /\ InProgress(engine)
      /\ SubmittedBefore(engine, LastText(engine'))
      /\ "candidate_question" \notin obs'.log) =>
       /\ "duplicate" \in obs'.log
       /\ "quality" \notin obs'.log
       /\ "follow_up_llm" \notin obs'.log
       /\ engine'.follow_ups = engine.follow_ups
       /\ engine'.current_question_index = engine.current_question_index + 1
       /\ IF engine'.current_question_index < Len(engine'.questions)
          THEN /\ result'.status = "active"
               /\ ~result'.is_follow_up
               /\ result'.question = get_current_question(engine')
          ELSE /\ result'.status = "complete"
               /\ engine'.interview_complete]_vars

\* a repeated answer moved the cursor to the next question
C6_Witness ==
  /\ result.call = "process_response"
  /\ "duplicate" \in obs.log
  /\ result.status = "active"
  /\ Len(engine.responses) >= 2
  /\ LET n == Len(engine.responses)
     IN /\ engine.responses[n - 1].response = engine.responses[n].response
        /\ engine.responses[n - 1].question_index = engine.responses[n].question_index
        /\ engine.current_question_index = engine.responses[n].question_index + 1

\* C7: after start_interview, when every response so far was rated high
\* (score >= 7) and none was a candidate question or a duplicate, the k-th
\* call returns status active with question k+1 of the sequence while k is
\* less than the number N of questions, and the N-th call returns status
\* complete with a generated summary holding every required key.
C7_HighQualityRun ==
  LET k == obs.clean_turns
      N == Len(engine.questions)
  IN (result.call = "process_response" /\ k >= 1) =>
       /\ k <= N
       /\ k < N => /\ result.status = "active"
                   /\ ~result.is_follow_up
                   /\ result.question = engine.questions[k + 1]
                   /\ ~engine.interview_complete
       /\ k = N => /\ result.status = "complete"
                   /\ result.summary.source \in {"validated", "fallback"}
                   /\ HasAllKeys(result.summary)

\* a run of N high-rated answers completed an interview of N questions
C7_Witness ==
  /\ result.call = "process_response"
  /\ obs.clean_turns = Len(engine.questions)
  /\ Len(engine.questions) >= 2
  /\ result.status = "complete"

\* C8: every summary that generate_summary returns and every summary that a
\* status=complete result of process_response carries holds the eleven
\* required fields.
C8_SummaryHasAllKeys ==
  /\ result.call = "generate_summary" => HasAllKeys(result.summary)
  /\ (result.call = "process_response" /\ result.status = "complete")
       => HasAllKeys(result.summary)

\* C9: for every text (empty, prose, truncated JSON, JSON that is no object,
\* objects with any of the fields) and whatever hjson does,
\* _parse_summary_response raises nothing and returns a record that holds
\* every required key.
C9_ExtractorTotal ==
  (gen.kind = "summary" /\ gen.done) =>
    /\ gen.out.source # "raised"
    /\ HasAllKeys(gen.out)

\* a JSON text that is no object was parsed, and an object lacking required
\* keys was
C9_Witness ==
  /\ gen.kind = "summary"
  /\ gen.done
  /\ gen.response.form = "array"
  /\ gen.out.source = "validated"

\* C10: the script generate_interview_script returns has an introduction, a
\* closing and a mapping of questions with all four categories, whatever
\* the generator returned; a category the text lacks holds one question.
C10_ScriptComplete ==
  (gen.kind = "script" /\ gen.done) =>
    /\ gen.out.introduction # "none"
    /\ gen.out.closing # "none"
    /\ gen.out.questions.kind = "dict"
    /\ DOMAIN gen.out.questions.count = Categories
    /\ \A c \in Categories :
         (gen.text.form = "object" /\ "questions" \in gen.text.fields
          /\ gen.text.questions.kind = "dict" /\ c \notin gen.text.questions.names)
           => gen.out.questions.count[c] = 1

\* C11: a process_response call on a session that was not started is
\* reported as an error (InvalidState) and is not processed as a turn: the
\* session is left as it was; a call on a started session reports no error.
C11_NotStartedIsInvalidState ==
  [][Turn =>
       IF engine.interview_active
       THEN ~result'.raised /\ result'.status # "error"
       ELSE (result'.raised \/ result'.status = "error") /\ engine' = engine]_vars

\* C12: start_interview on a session without a script fails (NotInitialized):
\* the session is not made active and no script is generated.
C12_StartNeedsScript ==
  [][(result'.call = "start_interview" /\ engine.script = NoScript) =>
       /\ result'.raised
       /\ ~engine'.interview_active
       /\ engine'.script = NoScript
       /\ engine'.questions = <<>>]_vars

\* C13: no operation on a session sets current_question_index to a value
\* smaller than the one it held.
C13_CursorNeverRewinds ==
  [][engine'.current_question_index >= engine.current_question_index]_vars

\* C14: after a process_response call that returns status complete the
\* session has interview_complete = TRUE and interview_active = FALSE: it is
\* never both active and complete.
C14_CompleteIsInactive ==
  [][(Turn /\ result'.status = "complete") =>
       /\ engine'.interview_complete
       /\ ~engine'.interview_active]_vars

C16_StartFrame ==
  [][(result'.call = "start_interview" /\ engine'.questions # <<>>) =>
       /\ ~result'.raised
       /\ engine'.interview_active
       /\ engine'.current_question_index = 0
       /\ engine'.responses = <<>>
       /\ engine'.follow_ups = <<>>
       /\ result'.status = "active"
       /\ result'.introduction = engine'.script.introduction
       /\ result'.introduction # "none"
       /\ result'.question = engine'.questions[1]
       /\ result'.question_number = 1]_vars

\* a session that had recorded responses was started again
C16_Witness ==
  /\ result.call = "start_interview"
  /\ result.status = "active"
  /\ engine.memory # <<>>
  /\ calls > 0

\* C17: whatever the script, the sequence that _organize_questions builds
\* holds exactly one introduction question, at position 0, and exactly one
\* closing question, at the last position; no entry between them has the
\* category introduction or closing.
C17_OneIntroductionOneClosing ==
  (gen.kind = "organize" /\ result.call = "generate_interview_script"
   /\ ~result.raised) =>
    LET q == engine.questions
    IN /\ Len(q) >= 2
       /\ q[1].category = "introduction"
       /\ q[Len(q)].category = "closing"
       /\ \A i \in 2..(Len(q) - 1) : q[i].category \in Categories

\* a parsed script with a question in every category was organised
C17_Witness ==
  /\ gen.kind = "organize"
  /\ result.call = "generate_interview_script"
  /\ engine.script.source = "parsed"
  /\ Len(engine.questions) >= 6

\* the texts in previous_responses for the question under the cursor
PreviousFor(e) ==
  IF e.current_question_index \in DOMAIN e.previous_responses
  THEN e.previous_responses[e.current_question_index]
  ELSE <<>>

\* C18: for a text that is not taken for a candidate question, the duplicate
\* check answers true when the same string is already in previous_responses
\* for the question index, and answers false (and records the text) when
\* every string recorded there has a similarity ratio of at most 0.8 with
\* it: a ratio of exactly 0.8 makes no duplicate.
C18_DuplicateThreshold ==
  [][(Turn /\ InProgress(engine) /\ "candidate_question" \notin obs'.log) =>
       LET t == LastText(engine')
           prev == PreviousFor(engine)
           i == engine.current_question_index
       IN /\ (\E j \in 1..Len(prev) : prev[j] = t)
               => /\ "duplicate" \in obs'.log
                  /\ engine'.previous_responses[i] = prev
          /\ (\A j \in 1..Len(prev) : Similarity(t, prev[j]) * 10 <= 8 * 100)
               => /\ "duplicate" \notin obs'.log
                  /\ engine'.previous_responses[i] = Append(prev, t)]_vars

\* a text whose ratio with the one recorded before it is exactly 0.8 was
\* recorded as a new answer to the same question
C18_Witness ==
  /\ result.call = "process_response"
  /\ "duplicate" \notin obs.log
  /\ \E i \in DOMAIN engine.previous_responses :
       /\ Len(engine.previous_responses[i]) = 2
       /\ Similarity(engine.previous_responses[i][1],
                     engine.previous_responses[i][2]) = SimilarityThreshold
       /\ LastText(engine) = engine.previous_responses[i][2]

\* C19: for a text that is valid JSON conforming to the summary schema,
\* nested response_scores and skill_ratings included, the extractor returns
\* the data of the parsed text and it is the direct parse that yields them:
\* no later stage of fix_json runs.
C19_DirectParseOnValidInput ==
  (/\ gen.kind = "summary"
   /\ gen.done
   /\ gen.response = SummaryText("nested_object", ConformingFields)) =>
    /\ gen.out.source = "validated"
    /\ gen.out.stage = "direct"
    /\ gen.out.fields = gen.response.fields

\* C20: the history of ConversationMemory never holds more than max_history
\* exchanges; add_exchange puts the new exchange last, and on a full history
\* it drops exactly the oldest exchange and keeps the others in their order.
C20_MemoryIsFIFO ==
  [][(gen.kind = "memory" /\ calls' = calls + 1) =>
       LET h == engine.memory
           h2 == engine'.memory
       IN /\ Len(h2) <= max_history
          /\ h2[Len(h2)] = gen'.exchange
          /\ IF Len(h) < max_history
             THEN h2 = Append(h, gen'.exchange)
             ELSE h2 = Append(Tail(h), gen'.exchange)]_vars

\* an exchange was added to a full history whose oldest exchange differed
\* from the one after it
C20_Witness ==
  /\ gen.kind = "memory"
  /\ calls > max_history + 1
  /\ Len(engine.memory) = max_history
  /\ engine.memory[1] # engine.memory[2]

\* C21: in a process_response call the cursor moves only when every other
\* step of the turn succeeded: a turn in which a step failed (a call to the
\* generator raised) leaves current_question_index where it was.
C21_FailedTurnKeepsCursor ==
  [][(Turn /\ "llm_raised" \in obs'.log) =>
       engine'.current_question_index = engine.current_question_index]_vars

\* C22: when a follow-up was asked for and the generator declined (the
\* sentinel NO_FOLLOW_UP_NEEDED, an error or an empty text), no FollowUp
\* record is appended, the cursor moves on by exactly one, and the result
\* carries the question now under the cursor or, when none remains, the
\* interview completes.
C22_DeclinedFollowUpAdvances ==
  [][(Turn /\ "follow_up_declined" \in obs'.log) =>
       /\ engine'.follow_ups = engine.follow_ups
       /\ engine'.current_question_index = engine.current_question_index + 1
       /\ IF engine'.current_question_index < Len(engine'.questions)
          THEN /\ result'.status = "active"
               /\ ~result'.is_follow_up
               /\ result'.question = get_current_question(engine')
          ELSE /\ result'.status = "complete"
               /\ engine'.interview_complete]_vars

\* the generator declined on the first question and the second was handed
\* out while no follow-up is on record
C22_Witness ==
  /\ result.call = "process_response"
  /\ "follow_up_declined" \in obs.log
  /\ result.status = "active"
  /\ engine.current_question_index = 1
  /\ engine.follow_ups = <<>>

\* the generator was asked to rate the response and returned a text
Rated_by_generator ==
  gen.kind = "quality" /\ gen.done /\ "quality_llm" \in gen.log /\ gen.reply # "raise"

\* C23: in regular mode, when the generator returns a parseable score s and
\* fewer than 2 follow-ups exist for the question, a follow-up is asked for
\* exactly when s <= 3, or 4 <= s <= 6 and none was asked yet; never for
\* s >= 7.
C23_ScoreThresholds ==
  (Rated_by_generator /\ ~gen.demo_mode /\ gen.follow_up_count < 2
   /\ ParseInt(gen.reply) # -1) =>
    LET score == ParseInt(gen.reply)
    IN /\ gen.out <=> (score <= 3 \/ (4 <= score /\ score <= 6 /\ gen.follow_up_count = 0))
       /\ score >= 7 => ~gen.out

\* a score of 6 on a question that already had a follow-up asked no other
C23_Witness ==
  /\ Rated_by_generator
  /\ gen.reply = "6"
  /\ gen.follow_up_count = 1
  /\ ~gen.out

\* C24: when the generator's rating cannot be parsed as a score, the decision
\* is the one the fallback heuristics take when the generator is unavailable:
\* in particular a response of fewer than 25 words gets a follow-up while
\* the cap is not reached, also after a first follow-up.
C24_UnparseableUsesHeuristics ==
  (Rated_by_generator /\ ~gen.demo_mode /\ gen.follow_up_count < 2
   /\ ParseInt(gen.reply) = -1) =>
    gen.out \in Heuristics(gen.text,
                           Question(gen.category, IF gen.category \in Categories THEN 1 ELSE 0),
                           gen.follow_up_count)

\* C25: on the fallback path (the generator is unavailable) a response of
\* more than 100 words gets no follow-up, whatever the category of the
\* question and the markers in the response.
C25_LengthOverrideWins ==
  (gen.kind = "quality" /\ gen.done /\ "llm_raised" \in gen.log
   /\ TextAttr[gen.text].words > 100) => ~gen.out

\* C26: a response that contains a move-on phrase and is neither a question
\* of the candidate nor a duplicate makes the turn ask the generator for no
\* quality score and issue no follow-up: the session advances to the next
\* question, or completes on the last one.
C26_MoveOnSkipsFollowUp ==
  [][(/\ engine.interview_active
      /\ ~engine.interview_complete
      /\ calls' = calls + 1
      /\ gen'.kind = "turn"
      /\ TextAttr[gen'.text].moveon
      /\ "candidate_question" \notin obs'.log
      /\ "duplicate" \notin obs'.log) =>
       /\ obs'.log \cap {"quality", "quality_llm", "follow_up_llm", "follow_up_issued"} = {}
       /\ engine'.follow_ups = engine.follow_ups
       /\ result'.is_follow_up = FALSE
       /\ IF engine.current_question_index >= Len(engine.questions) - 1
          THEN engine'.interview_complete
          ELSE /\ engine'.current_question_index = engine.current_question_index + 1
               /\ ~engine'.interview_complete
               /\ result'.question = engine.questions[engine'.current_question_index + 1]]_vars

\* a move-on response after a follow-up has advanced a session of more than
\* two questions
C26_Witness ==
  /\ gen.kind = "turn"
  /\ TextAttr[gen.text].moveon
  /\ obs.log \cap {"candidate_question", "duplicate"} = {}
  /\ engine.follow_ups # <<>>
  /\ engine.current_question_index = 1
  /\ ~engine.interview_complete

\* C27: in demo mode no question index has more than one FollowUp record,
\* a follow-up is issued only for a response of fewer than 15 words, and the
\* generator is not asked to score the response.
C27_DemoModePolicy ==
  engine.demo_mode =>
    /\ \A j \in 1..Len(engine.follow_ups) :
         /\ FollowUpsOf(engine, engine.follow_ups[j].question_index) <= 1
         /\ TextAttr[engine.follow_ups[j].response].words < 15
    /\ obs.log \cap {"quality", "quality_llm"} = {}

\* a demo session that asked one follow-up on the first question and moved
\* on after the next answer to it
C27_Witness ==
  /\ engine.demo_mode
  /\ Len(engine.follow_ups) = 1
  /\ engine.follow_ups[1].question_index = 0
  /\ engine.current_question_index = 1
  /\ result.call = "process_response"
  /\ ~result.is_follow_up
  /\ obs.log \cap {"duplicate", "candidate_question"} = {}

\* C28: generate_follow_up_question returns within the 5 seconds of its
\* timeout even if the generator never answers; on timeout it returns the
\* fixed fallback text; the late result of a worker is discarded: no call,
\* this one or a later one, returns the result of another call's worker.
C28_FollowUpCallTimeout ==
  /\ [](gen.kind = "follow_up" =>
          /\ gen.pc = "waiting" => gen.now - gen.started <= GetTimeoutSeconds
          /\ \A c \in 1..Len(gen.returns) :
               LET ret == gen.returns[c]
               IN /\ ret.elapsed <= GetTimeoutSeconds
                  /\ ret.timed_out => ret.value = "Could you elaborate more on that point?"
                  /\ ~ret.timed_out =>
                       /\ ret.from = c
                       /\ ret.value = generate_follow_up_question(gen.workers[c].reply))
  /\ ((gen.kind = "follow_up" /\ gen.pc = "waiting") ~> (gen.pc = "idle"))

\* the first call timed out, its worker answered afterwards, and the second
\* call returned its own worker's question
C28_Witness ==
  /\ gen.kind = "follow_up"
  /\ Len(gen.returns) = 2
  /\ gen.returns[1].timed_out
  /\ gen.workers[1].state = "done"
  /\ ~gen.returns[2].timed_out
  /\ gen.returns[2].value = "generated"

\* C29: if the generator does not answer a request for an acknowledgment in
\* time, the turn still completes within the timeout window (5 seconds) and
\* its result carries a non-empty acknowledgment.
C29_AcknowledgmentWithinWindow ==
  gen.kind = "acknowledgment" =>
    /\ gen.pc = "blocked" => gen.now - gen.started <= GetTimeoutSeconds
    /\ \A i \in 1..Len(gen.acks) :
         /\ gen.acks[i].elapsed <= GetTimeoutSeconds
         /\ gen.acks[i].elapsed >= GetTimeoutSeconds => gen.acks[i].value # ""

\* C30: OllamaProvider.get_completion always terminates by returning: it
\* makes at most max_retries + 1 = 3 attempts, and when every attempt has
\* failed it returns, after exactly 3 attempts, the canned fallback text of
\* the prompt.
C30_CompletionTerminates ==
  /\ [](gen.kind = "completion" =>
          /\ gen.attempts <= max_retries + 1
          /\ gen.retry_count <= max_retries + 1
          /\ (gen.pc = "returned" /\ ~gen.got_content) =>
               /\ gen.value = _generate_labeled_fallback(gen.prompt)
               /\ gen.attempts \in {0, max_retries + 1}
               /\ gen.attempts = 0 => ~gen.is_healthy)
  /\ (gen.kind = "completion" => <>(gen.pc = "returned"))

\* three attempts failed, the last with a request to the fallback model, and
\* the labelled fallback text was returned
C30_Witness ==
  /\ gen.kind = "completion"
  /\ gen.pc = "returned"
  /\ ~gen.got_content
  /\ gen.attempts = 3
  /\ gen.requests = 4
  /\ gen.value.labeled

\* C31: on every retry after a failed attempt of get_completion the token
\* budget is reduced: it is never larger than the budget of the attempt
\* before, for every initial max_tokens.
C31_RetryBudgetNeverGrows ==
  [][(gen.kind = "completion" /\ gen'.attempts = gen.attempts + 1) =>
       gen'.max_tokens <= gen.max_tokens]_vars

\* C32: a cleanup pass evicts the sessions that come first in the order of
\* last access time ascending, ties broken by access count ascending: no
\* session that stays was accessed earlier than an evicted one, or at the
\* same time with fewer accesses.
C32_EvictionOrder ==
  gen.kind = "registry" =>
    \A i, j \in 1..Len(gen.cleanup.before) :
      LET x == gen.cleanup.before[i]
          y == gen.cleanup.before[j]
      IN (x.id \in gen.cleanup.removed /\ y.id \notin gen.cleanup.removed) =>
           ~(\/ y.last_access < x.last_access
             \/ y.last_access = x.last_access /\ y.access_count < x.access_count)

\* C33: after the monitor has evicted a session its live state is gone: no
\* later turn addressed to that session is served from the evicted engine.
C33_EvictedStateIsGone ==
  gen.kind = "registry" => ~(gen.served.evicted /\ gen.served.responses > 0)

\* C34: every read or write of the registry and of a prompt cache is done
\* with the lock held, and no generator call is made with the lock held.
C34_AccessUnderLock ==
  gen.kind = "registry" =>
    \A a \in gen.access :
      /\ a.resource \in {"registry", "prompt_cache"} => a.locked
      /\ a.resource = "generator" => ~a.locked

\* C38: the resource check at the start of a turn never evicts the session
\* that is processing the turn, for every number of registered sessions.
C38_TurnKeepsItsSession ==
  gen.kind = "registry" => gen.cleanup.by \notin gen.cleanup.removed

\* C35: the extractor tries its stages in the stated order, the direct parse
\* of the text as it is first, and enters a stage only when all earlier ones
\* failed; the validation pass runs on the result of the stage that
\* succeeded.  So a text that is valid JSON as it stands is settled by the
\* direct parse, and the validated summary carries the stage at which
\* fix_json succeeded.
C35_StagesInOrder ==
  (gen.kind = "summary" /\ gen.done) =>
    /\ gen.response.form \in {"scalar", "array", "flat_object", "nested_object"} =>
         fix_json(gen.response, gen.hjson).stage = "direct"
    /\ gen.out.source = "validated"
    /\ gen.out.stage = fix_json(gen.response, gen.hjson).stage

\* C37: whenever interview_complete holds after a process_response call, the
\* stored summary of the session is set and is the summary carried by the
\* status=complete result.
C37_CompleteHasSummary ==
  [][(calls' = calls + 1 /\ result'.call = "process_response"
      /\ engine'.interview_complete) =>
       /\ engine'.summary # NoSummary
       /\ result'.status = "complete" => result'.summary = engine'.summary]_vars

\* C39: the question sequence built from a script whose "questions" is a dict
\* of lists is the introduction, every question of the four script
\* categories exactly once, and the closing: its length is 2 plus the total
\* number of script questions, no script question is dropped or repeated,
\* and the questions of one category appear in the order the script lists
\* them.
C39_SequenceIsTheScript ==
  (gen.kind = "organize" /\ result.call = "generate_interview_script"
   /\ ~result.raised) =>
    LET q == engine.questions
        script == InterviewGenerator_generate_interview_script(gen.text,
                                                               gen.demo_mode)
        count == script.questions.count
    IN /\ script.questions.kind = "dict"
       /\ Len(q) = 2 + count["job_specific"] + count["technical"]
                      + count["company_fit"] + count["behavioral"]
       /\ q[1] = Question("introduction", 0)
       /\ q[Len(q)] = Question("closing", 0)
       /\ \A c \in Categories : \A n \in 1..count[c] :
            Cardinality({i \in DOMAIN q : q[i] = Question(c, n)}) = 1
       /\ \A i \in DOMAIN q : \A j \in DOMAIN q :
            (i < j /\ q[i].category = q[j].category) => q[i].n < q[j].n

\* a script that lists two job-specific questions was organised, and the
\* second one follows the first round
C39_Witness ==
  /\ gen.kind = "organize"
  /\ result.call = "generate_interview_script"
  /\ ~result.raised
  /\ Len(engine.questions) = 7
  /\ engine.questions[6] = Question("job_specific", 2)

\* C36: if no response is classified as a candidate question, a started
\* interview over N questions is complete after at most 3*N process_response
\* calls in regular mode and at most 2*N in demo mode, whatever is submitted
\* and whatever the generator returns: while the interview is not complete
\* fewer calls than that have been made.
C36_CompleteWithinBound ==
  (Len(engine.questions) > 0 /\ ~engine.interview_complete) =>
    calls < (IF engine.demo_mode THEN 2 ELSE 3) * Len(engine.questions)

\* a regular session over two questions that took two follow-ups on each
\* question: it is complete after its sixth call
C36_Witness ==
  /\ ~engine.demo_mode
  /\ Len(engine.questions) = 2
  /\ calls = 6
  /\ result.call = "process_response"
  /\ engine.interview_complete
  /\ Len(engine.follow_ups) = 4

\* C40: a web request that arrives on a session whose last recorded access
\* is older than SESSION_TIMEOUT is answered with status session_expired,
\* the engine of the session is removed, and the request is not served by
\* the interview engine.
C40_ExpiredRequestRejected ==
  (gen.kind = "web" /\ gen.stale) =>
    /\ gen.status = "session_expired"
    /\ ~gen.interview_engines
    /\ ~gen.served

=============================================================================
